---- MODULE Spec2Model ----
(***************************************************************************)
(* State-machine model of the RoboSketch planner: the Home page            *)
(* (handleGenerate / handleReset), the generateProjectAction orchestrator  *)
(* in its sequential and Promise.all revisions, and the generators it      *)
(* calls (project description, bill of materials, code, images, assembly   *)
(* instructions).                                                          *)
(*                                                                         *)
(* Strings are sequences of tokens, so that concatenation and template     *)
(* literals are sequence concatenation and '' is << >>.                    *)
(***************************************************************************)
EXTENDS Naturals, Integers, Sequences, FiniteSets, TLC

(***************************************************************************)
(* Bounds                                                                  *)
(***************************************************************************)
\* longest bill-of-materials array an upstream response carries
MaxBom == 1

(***************************************************************************)
(* JavaScript values carried by parsed JSON                                *)
(***************************************************************************)
NoParts == [goals |-> "undef", scope |-> "undef", keyFeatures |-> "undef"]

Undef == [t |-> "undef", s |-> << >>, parts |-> NoParts, items |-> << >>]

JNull == [t |-> "null", s |-> << >>, parts |-> NoParts, items |-> << >>]

JStr(s) == [t |-> "str", s |-> s, parts |-> NoParts, items |-> << >>]

JNum(tok) == [t |-> "num", s |-> <<tok>>, parts |-> NoParts, items |-> << >>]

JObj(parts) == [t |-> "obj", s |-> <<"[object Object]">>, parts |-> parts, items |-> << >>]

JArr(items) == [t |-> "arr", s |-> << >>, parts |-> NoParts, items |-> items]

\* JavaScript truthiness of a value: undefined, null and '' are falsy
Truthy(v) == CASE v.t = "undef" -> FALSE
               [] v.t = "null" -> FALSE
               [] v.t = "str" -> v.s # << >>
               [] OTHER -> TRUE

\* String(x): the text of a string or a number, '[object Object]' for an
\* object
JString(v) == v.s

\* a member of an object {goals, scope, keyFeatures}: absent, a string, or
\* an array of two strings
PartText(kind, tok) == CASE kind = "str" -> <<tok>>
                         [] kind = "arr" -> <<tok, "; ", tok>>
                         [] OTHER -> << >>

(***************************************************************************)
(* Upstream chat-completion responses                                      *)
(***************************************************************************)
\* k = "throw": the create() call rejects; "none": no message content;
\* "text": content that JSON.parse rejects; "jsonnull": content 'null';
\* "json": content is a JSON object whose expected field is f (fmt is the
\* assemblyInstructionsFormat field of an assembly response)
Resp(k, content, f, fmt) == [k |-> k, content |-> content, f |-> f, fmt |-> fmt]

RespThrow == Resp("throw", << >>, Undef, Undef)

RespNone == Resp("none", << >>, Undef, Undef)

RespText == Resp("text", <<"plain words">>, Undef, Undef)

RespJsonNull == Resp("jsonnull", <<"null">>, Undef, Undef)

RespJson(f) == Resp("json", <<"{json}">>, f, Undef)

\* outcome of a generator: it raised msg, or returned val
Raise(msg) == [raised |-> TRUE, msg |-> msg, val |-> << >>]

Return(val) == [raised |-> FALSE, msg |-> "", val |-> val]

(***************************************************************************)
(* generateProjectDescription                                              *)
(***************************************************************************)
DescFields ==
  {Undef, JStr(<<"a walking robot">>),
   JObj([goals |-> "str", scope |-> "undef", keyFeatures |-> "arr"])}

DescResponses ==
  {RespThrow, RespNone, RespText, RespJsonNull} \cup {RespJson(f) : f \in DescFields}

FallbackDescription(input) == <<"Robot project based on your description: ">> \o input

\* first revision: any failure is rethrown as one wrapped error
generateProjectDescriptionHard(input, r) ==
  IF r.k \in {"throw", "none", "text", "jsonnull"}
  THEN Raise("Failed to generate project description")
  ELSE Return(IF Truthy(r.f) THEN JString(r.f) ELSE << >>)

\* text built from an object-valued projectDescription
DescribeRecord(parts) ==
  LET g == IF parts.goals # "undef"
           THEN <<<<"Goals: ">> \o PartText(parts.goals, "g")>> ELSE << >>
      s == IF parts.scope # "undef"
           THEN <<<<"Scope: ">> \o PartText(parts.scope, "s")>> ELSE << >>
      k == IF parts.keyFeatures # "undef"
           THEN <<<<"Key Features: ">> \o PartText(parts.keyFeatures, "k")>> ELSE << >>
      all == g \o s \o k
      JoinNl[i \in 0..Len(all)] ==
        IF i = 0 THEN << >>
        ELSE IF i = 1 THEN all[1]
        ELSE JoinNl[i - 1] \o <<"\n">> \o all[i]
  IN IF Len(all) > 0 THEN JoinNl[Len(all)] ELSE <<"{}">>

\* variant: a thrown upstream call is rethrown, as in the first revision
generateProjectDescriptionSoft_Rethrow(input, r) ==
  CASE r.k = "throw" -> Raise("Failed to generate project description")
    [] r.k = "none" -> Return(FallbackDescription(input))
    [] r.k = "text" -> Return(r.content)
    [] r.k = "jsonnull" -> Return(FallbackDescription(input))
    [] OTHER ->
         Return(CASE r.f.t = "obj" -> DescribeRecord(r.f.parts)
                  [] r.f.t \in {"undef", "null"} -> << >>
                  [] OTHER -> JString(r.f))

\* fail-soft revision
generateProjectDescriptionSoft(input, r) ==
  CASE r.k = "throw" -> Return(FallbackDescription(input))
    [] r.k = "none" -> Return(FallbackDescription(input))
    [] r.k = "text" -> Return(r.content)
    [] r.k = "jsonnull" -> Return(FallbackDescription(input))
    [] OTHER ->
         Return(CASE r.f.t = "obj" -> DescribeRecord(r.f.parts)
                  [] r.f.t \in {"undef", "null"} -> << >>
                  [] OTHER -> JString(r.f))

generateProjectDescription(rev, input, r) ==
  IF rev = "soft" THEN generateProjectDescriptionSoft(input, r)
  ELSE generateProjectDescriptionHard(input, r)

(***************************************************************************)
(* generateBillOfMaterials                                                 *)
(***************************************************************************)
\* quantity is absent from the items of the first prompt revisions and may
\* be left out by the model; prices are in cents
BomItem(c, d, hasQ, q, price) ==
  [component |-> c, description |-> d, hasQuantity |-> hasQ, quantity |-> q,
   link |-> "https://www.adafruit.com/product/1", approximatePriceUSD |-> price]

BomItems ==
  {BomItem("Servo SG90", "micro servo", TRUE, 2, 395),
   BomItem("Battery 7.4V", "battery pack", FALSE, 0, 1295)}

BomLists == UNION {[1..n -> BomItems] : n \in 0..MaxBom}

BomFields == {Undef, JNull, JStr(<<"see attachment">>)} \cup {JArr(l) : l \in BomLists}

BomResponses ==
  {RespThrow, RespNone, RespText, RespJsonNull} \cup {RespJson(f) : f \in BomFields}

\* variant: a JSON.parse failure is swallowed and gives the empty list
generateBillOfMaterials_SoftParse(r) ==
  IF r.k \in {"throw", "none", "jsonnull"}
  THEN Raise("Failed to generate bill of materials")
  ELSE Return(IF r.k = "json" /\ Truthy(r.f) THEN r.f ELSE JArr(<< >>))

\* variant: a missing billOfMaterials key is rejected
generateBillOfMaterials_StrictKey(r) ==
  IF r.k \in {"throw", "none", "text", "jsonnull"} \/ ~Truthy(r.f)
  THEN Raise("Failed to generate bill of materials")
  ELSE Return(r.f)

generateBillOfMaterials(r) ==
  IF r.k \in {"throw", "none", "text", "jsonnull"}
  THEN Raise("Failed to generate bill of materials")
  ELSE Return(IF Truthy(r.f) THEN r.f ELSE JArr(<< >>))

(***************************************************************************)
(* generateCode                                                            *)
(***************************************************************************)
CodeFields == {Undef, JStr(<<"loop()">>)}

CodeResponses ==
  {RespThrow, RespNone, RespText, RespJsonNull} \cup {RespJson(f) : f \in CodeFields}

\* variant: an empty response gives empty code instead of an error
generateCode_SoftEmpty(r) ==
  IF r.k \in {"throw", "text", "jsonnull"}
  THEN Raise("Failed to generate code")
  ELSE Return(IF r.k = "json" /\ Truthy(r.f) THEN r.f.s ELSE << >>)

generateCode(r) ==
  IF r.k \in {"throw", "none", "text", "jsonnull"}
  THEN Raise("Failed to generate code")
  ELSE Return(IF Truthy(r.f) THEN r.f.s ELSE << >>)

(***************************************************************************)
(* generateAssemblyInstructions                                            *)
(***************************************************************************)
FormatFields == {Undef, JStr(<<"pdf">>), JStr(<<"markdown">>), JStr(<<"html">>), JStr(<<"PDF">>)}

AssemblyFields == {Undef, JStr(<<"1. Attach the servo">>)}

AssemblyResponses ==
  {RespThrow, RespNone, RespText, RespJsonNull}
    \cup {Resp("json", <<"{json}">>, f, fmt) : f \in AssemblyFields, fmt \in FormatFields}

\* variant: any string the model returns is passed through
AssemblyFormat_PassThrough(fmt) ==
  IF fmt.t = "str" /\ fmt.s # << >> THEN fmt.s[1] ELSE "markdown"

AssemblyFormat(fmt) == IF fmt = JStr(<<"pdf">>) THEN "pdf" ELSE "markdown"

\* variant: a response without the assemblyInstructions field is rejected
generateAssemblyInstructions_StrictField(r) ==
  IF r.k \in {"throw", "none", "text", "jsonnull"} \/ ~Truthy(r.f)
  THEN Raise("Failed to generate assembly instructions")
  ELSE Return([assemblyInstructions |-> r.f.s,
               assemblyInstructionsFormat |-> AssemblyFormat(r.fmt)])

generateAssemblyInstructions(r) ==
  IF r.k \in {"throw", "none", "text", "jsonnull"}
  THEN Raise("Failed to generate assembly instructions")
  ELSE Return([assemblyInstructions |-> IF Truthy(r.f) THEN r.f.s ELSE << >>,
               assemblyInstructionsFormat |-> AssemblyFormat(r.fmt)])

(***************************************************************************)
(* Image generation: model responses, URL fetch, refinement                *)
(***************************************************************************)
\* an images.generate() outcome: the call throws, or the first data entry
\* carries b64_json and/or url ('' when absent)
ImgResp(k, b64, url) == [k |-> k, b64 |-> b64, url |-> url]

ImageResponses ==
  {ImgResp("throw", << >>, << >>)}
    \cup {ImgResp("ok", b, u) : b \in {<< >>, <<"iVBOR">>}, u \in {<< >>, <<"https://img/1">>}}

FetchOutcomes == {"throw", "notok", "ok"}

DataUriFromB64(b64) == <<"data:image/png;base64,">> \o b64

\* variant: when the fetch fails the remote URL itself is handed back
imageUrlToDataUri_UrlOnFailure(out) ==
  IF out = "ok" THEN <<"data:", "image/png", ";base64,", "ZmV0Y2hlZA">>
  ELSE <<"https://img/1">>

\* imageUrlToDataUri: '' unless the fetch succeeds with an OK status
imageUrlToDataUri(out) ==
  IF out = "ok" THEN <<"data:", "image/png", ";base64,", "ZmV0Y2hlZA">> ELSE << >>

\* variant: base64 data is used whichever model answered
HandleImageResponse_AnyModel(actualModelUsed, resp) ==
  IF resp.b64 # << >>
  THEN [next |-> "return", val |-> DataUriFromB64(resp.b64)]
  ELSE IF resp.url = << >>
  THEN [next |-> "return", val |-> << >>]
  ELSE [next |-> "fetch", val |-> << >>]

\* what generateConceptImage / generateCircuitDiagram do with a response
\* that did not throw: "return" a value, or "fetch" the remote URL
HandleImageResponse(actualModelUsed, resp) ==
  IF actualModelUsed = "gpt-image-1" /\ resp.b64 # << >>
  THEN [next |-> "return", val |-> DataUriFromB64(resp.b64)]
  ELSE IF resp.url = << >>
  THEN [next |-> "return", val |-> << >>]
  ELSE [next |-> "fetch", val |-> << >>]

\* variant: the refined image is dropped, the base image always kept
refineImage_NeverReplaces(base, resp) == base

\* variant: a failed refinement gives the empty image
refineImage_EmptyOnFailure(base, resp) ==
  IF resp.k = "throw" THEN << >>
  ELSE IF resp.b64 # << >> THEN DataUriFromB64(resp.b64)
  ELSE << >>

\* refineConceptImage / refineCircuitDiagram
refineImage(base, resp) ==
  IF resp.k = "throw" THEN base
  ELSE IF resp.b64 # << >> THEN DataUriFromB64(resp.b64)
  ELSE base

(***************************************************************************)
(* Orchestrator helpers                                                    *)
(***************************************************************************)
\* text of a price given in cents
PriceText(cents) == CASE cents = 395 -> "3.95"
                      [] cents = 790 -> "7.9"
                      [] cents = 1295 -> "12.95"
                      [] OTHER -> "0"

\* one line of bomString; the Promise.all revision puts a $ before the price
BomLine(item, rev) ==
  <<item.component, ": ", item.description, " - ">>
    \o (IF rev = "par" THEN <<"$">> ELSE << >>)
    \o <<PriceText(item.approximatePriceUSD)>>

\* billOfMaterials.map(...).join('\n')
BomString(items, rev) ==
  LET J[i \in 0..Len(items)] ==
        IF i = 0 THEN << >>
        ELSE IF i = 1 THEN BomLine(items[1], rev)
        ELSE J[i - 1] \o <<"\n">> \o BomLine(items[i], rev)
  IN J[Len(items)]

Platforms == {"Raspberry Pi", "Arduino", "MicroBit"}

\* descriptions the form accepts, with their lengths
ValidDescriptions ==
  {[text |-> <<"line robot">>, len |-> 10], [text |-> <<"a long text">>, len |-> 500]}

ValidRequests ==
  [description : ValidDescriptions, platform : Platforms, image : BOOLEAN]

(***************************************************************************)
(* InputStep: the form and its schema                                      *)
(***************************************************************************)
\* what can be typed into the description field, with its length
FormDescriptions ==
  ValidDescriptions \cup
    {[text |-> <<"too short">>, len |-> 9], [text |-> <<"too long text">>, len |-> 501]}

\* platform "" is the select left untouched (no default value)
FormValues ==
  [description : FormDescriptions, platform : Platforms \cup {""}, image : BOOLEAN]

\* variant: the schema without the lower length bound
formSchema_NoMin(f) ==
  /\ f.description.len <= 500
  /\ f.platform \in Platforms

\* zodResolver(formSchema): does the form value parse
formSchema(f) ==
  /\ f.description.len >= 10
  /\ f.description.len <= 500
  /\ f.platform \in Platforms

(***************************************************************************)
(* The description request built from what the action passes on           *)
(***************************************************************************)
\* generateProjectAction calls generateProjectDescription({input:
\* data.description}): the image handleGenerate sent is not passed on
ActionDescInput(data) == [input |-> data.description.text, image |-> FALSE]

\* model and user content of the chat completion; only the fail-soft
\* revision knows about images
DescriptionRequest(rev, input) ==
  [model |-> IF rev = "soft" /\ input.image THEN "gpt-4o" ELSE "gpt-4-turbo",
   imagePart |-> rev = "soft" /\ input.image]

(***************************************************************************)
(* BomTable, CodeDisplay and the files of the archive                      *)
(***************************************************************************)
\* a JS number: NaN, or an amount in cents
NaN == [nan |-> TRUE, cents |-> 0]

Num(c) == [nan |-> FALSE, cents |-> c]

\* item.approximatePriceUSD * item.quantity; a missing quantity is
\* undefined, and number * undefined is NaN
LineCost(item) ==
  IF item.hasQuantity THEN Num(item.approximatePriceUSD * item.quantity) ELSE NaN

JsAdd(a, b) == IF a.nan \/ b.nan THEN NaN ELSE Num(a.cents + b.cents)

\* bom.reduce((acc, item) => acc + item.approximatePriceUSD * item.quantity, 0)
totalCost(bom) ==
  LET R[i \in 0..Len(bom)] ==
        IF i = 0 THEN Num(0) ELSE JsAdd(R[i - 1], LineCost(bom[i]))
  IN R[Len(bom)]

\* variant: every platform gets a .cpp file
codeFileExtension_AlwaysCpp(platform) == "cpp"

codeFileExtension(platform) == IF platform = "Raspberry Pi" THEN "py" ELSE "cpp"

language(platform) == IF platform = "Raspberry Pi" THEN "python" ELSE "cpp"

CsvHeader == <<"Component", ",", "Description", ",", "Link", ",", "Price (USD)">>

\* `"${i.component}","${i.description}",${i.link},${i.approximatePriceUSD}`
CsvLine(item) ==
  <<"\"", item.component, "\"", ",", "\"", item.description, "\"", ",",
    item.link, ",", PriceText(item.approximatePriceUSD)>>

\* header + "\n" + lines.join("\n")
bomCsv(items) ==
  LET J[i \in 0..Len(items)] ==
        IF i = 0 THEN << >>
        ELSE IF i = 1 THEN CsvLine(items[1])
        ELSE J[i - 1] \o <<"\n">> \o CsvLine(items[i])
  IN CsvHeader \o <<"\n">> \o J[Len(items)]

\* an entry of the JSZip object
Entry(path, content) == [path |-> path, content |-> content]

FileSet(z) == {e.path : e \in z}

\* the first segment of every path
TopLevel(z) == {e.path[1] : e \in z}

\* the body fetch() delivers for a placeholder URL: the image, or whatever
\* the server sends with a non-OK status (handleDownload does not look)
Blob(id, out) == IF out = "ok" THEN <<"jpeg of ", id>> ELSE <<"error page">>

NoPlaceholders == [circuit |-> FALSE, model |-> FALSE]

(***************************************************************************)
(* GeneratingStep                                                          *)
(***************************************************************************)
steps ==
  <<"Analyzing your design...", "Generating project description...",
    "Sourcing open-source components...", "Generating control code...",
    "Drafting assembly instructions...", "Finalizing project files...">>

NoRequest ==
  [description |-> [text |-> << >>, len |-> 0], platform |-> "Arduino", image |-> FALSE]

Calls == {"desc", "bom", "code", "img", "ph_circuit", "ph_3d", "asm"}

ImageKinds == {"concept", "circuit"}

NoAssembly == [assemblyInstructions |-> << >>, assemblyInstructionsFormat |-> "markdown"]

NoData ==
  [present |-> FALSE, projectDescription |-> << >>, billOfMaterials |-> JArr(<< >>),
   code |-> << >>, assemblyInstructions |-> NoAssembly, conceptImage |-> << >>,
   circuitDiagramImage |-> << >>, platform |-> "Arduino"]

NoResult == [settled |-> FALSE, success |-> FALSE, data |-> NoData, error |-> ""]

NoCalls == [primary |-> 0, secondary |-> 0, refine |-> 0]

NoChat == [call |-> "none", r |-> RespNone]

\* per tier: "none" (not called or not settled), "threw", "returned"; for
\* the refinement also "nodata" (returned without b64_json); for the fetch
\* of a remote URL "ok" or "failed" (it threw, or the status was not OK)
NoHist == [primary |-> "none", secondary |-> "none", refine |-> "none", fetch |-> "none"]

(***************************************************************************)
(* State                                                                   *)
(***************************************************************************)
VARIABLES
  orchRev,        \* "seq": sequential orchestrator with images; "par": Promise.all with placeholders
  descRev,        \* "hard" / "soft" revision of generateProjectDescription
  imgRev,         \* "plain" / "refine" revision of generateRobotImages
  projectState,   \* Home: 'input' | 'generating' | 'results'
  projectData,    \* Home: ProjectData | null (NoData)
  toast,          \* error toast raised by the latest handleGenerate run, "" if none
  hgPc,           \* handleGenerate: "idle", "readImage", "awaitAction", "thrown"
  req,            \* the data handleGenerate was called with
  gpaPc,          \* generateProjectAction: "idle", "running", "settled"
  st,             \* per call of the running request: "none", "inflight", "ok", "raised",
                  \* "abandoned" (in flight, its result will not be read), "dropped"
  issued,         \* calls of the running request in the order they were issued
  descOut,        \* projectDescription.projectDescription
  bomOut,         \* billOfMaterials.billOfMaterials
  codeOut,        \* code.code
  bomString,      \* flattened BOM text
  images,         \* generatedImages (or the two placeholder data URIs)
  result,         \* what generateProjectAction resolved with
  lastChat,       \* the chat completion that settled last: its call and the response
  imgPc,          \* per image: "idle", "primary", "secondary", "fetch", "refine", "done"
  imgVal,         \* per image: current image value
  modelUsed,      \* per image: actualModelUsed
  imgCalls,       \* per image: images.generate() calls issued, by tier
  imgHist,        \* per image: how each tier's call ended
  formError,      \* InputStep: the last submit was rejected by the schema
  placeholders,   \* ResultsDisplay: is circuitImage / modelImage found in the list
  dlPc,           \* handleDownload: "idle", "fetchCircuit", "fetchModel", "saved", "thrown"
  zip,            \* handleDownload: entries of the JSZip object
  progress,       \* GeneratingStep: value of the progress bar
  currentStep,    \* GeneratingStep: the step label shown
  stepIndex,      \* GeneratingStep: the counter of the step interval
  timer,          \* GeneratingStep: the 400 ms interval is running
  stepInterval    \* GeneratingStep: the step interval is running

genVars == <<progress, currentStep, stepIndex, timer, stepInterval>>

viewVars == <<formError, placeholders, dlPc, zip, genVars>>

uiVars == <<projectState, projectData, toast, hgPc, req, viewVars>>

srvVars == <<gpaPc, st, issued, descOut, bomOut, codeOut, bomString, images, result, lastChat>>

imgVars == <<imgPc, imgVal, modelUsed, imgCalls, imgHist>>

revVars == <<orchRev, descRev, imgRev>>

vars == <<revVars, uiVars, srvVars, imgVars>>

NoImages == [conceptImage |-> << >>, circuitDiagram |-> << >>]

Init ==
  /\ orchRev \in {"seq", "par"}
  /\ descRev \in {"hard", "soft"}
  /\ imgRev \in IF orchRev = "seq" THEN {"plain", "refine"} ELSE {"plain"}
  /\ projectState = "input"
  /\ projectData = NoData
  /\ toast = ""
  /\ hgPc = "idle"
  /\ req = NoRequest
  /\ gpaPc = "idle"
  /\ st = [c \in Calls |-> "none"]
  /\ issued = << >>
  /\ descOut = << >>
  /\ bomOut = JArr(<< >>)
  /\ codeOut = << >>
  /\ bomString = << >>
  /\ images = NoImages
  /\ result = NoResult
  /\ imgPc = [k \in ImageKinds |-> "idle"]
  /\ imgVal = [k \in ImageKinds |-> << >>]
  /\ modelUsed = [k \in ImageKinds |-> "gpt-image-1"]
  /\ imgCalls = [k \in ImageKinds |-> NoCalls]
  /\ imgHist = [k \in ImageKinds |-> NoHist]
  /\ lastChat = NoChat
  /\ formError = FALSE
  /\ placeholders = NoPlaceholders
  /\ dlPc = "idle"
  /\ zip = {}
  /\ progress = 0
  /\ currentStep = steps[1]
  /\ stepIndex = 0
  /\ timer = FALSE
  /\ stepInterval = FALSE

(***************************************************************************)
(* generateProjectAction: issuing calls, the catch block, the return       *)
(***************************************************************************)
\* entry of generateProjectAction: fresh locals, the description call issued
StartAction ==
  /\ gpaPc' = "running"
  /\ st' = [c \in Calls |-> IF c = "desc" THEN "inflight" ELSE "none"]
  /\ issued' = <<"desc">>
  /\ descOut' = << >>
  /\ bomOut' = JArr(<< >>)
  /\ codeOut' = << >>
  /\ bomString' = << >>
  /\ images' = NoImages
  /\ result' = NoResult
  /\ imgPc' = [k \in ImageKinds |-> "idle"]
  /\ imgVal' = [k \in ImageKinds |-> << >>]
  /\ modelUsed' = [k \in ImageKinds |-> "gpt-image-1"]
  /\ imgCalls' = [k \in ImageKinds |-> NoCalls]
  /\ imgHist' = [k \in ImageKinds |-> NoHist]
  /\ lastChat' = NoChat

\* the action has answered: its locals are gone
EndAction ==
  /\ gpaPc' = "idle"
  /\ st' = [c \in Calls |-> "none"]
  /\ issued' = << >>
  /\ descOut' = << >>
  /\ bomOut' = JArr(<< >>)
  /\ codeOut' = << >>
  /\ bomString' = << >>
  /\ images' = NoImages
  /\ result' = NoResult
  /\ imgPc' = [k \in ImageKinds |-> "idle"]
  /\ imgVal' = [k \in ImageKinds |-> << >>]
  /\ modelUsed' = [k \in ImageKinds |-> "gpt-image-1"]
  /\ imgCalls' = [k \in ImageKinds |-> NoCalls]
  /\ imgHist' = [k \in ImageKinds |-> NoHist]
  /\ lastChat' = NoChat

\* variant: a call that raised is issued once more before giving up
Catch_RetryOnce(c, cStatus, msg) ==
  IF cStatus = "raised" /\ Cardinality({i \in 1..Len(issued) : issued[i] = c}) < 2
  THEN /\ issued' = Append(issued, c)
       /\ UNCHANGED <<gpaPc, result, st>>
  ELSE /\ gpaPc' = "settled"
       /\ result' = [settled |-> TRUE, success |-> FALSE, data |-> NoData, error |-> msg]
       /\ st' = [x \in Calls |-> IF x = c THEN cStatus
                                 ELSE IF st[x] = "inflight" THEN "abandoned" ELSE st[x]]
       /\ UNCHANGED issued

\* variant: the catch block drops the error message
Catch_NoMessage(c, cStatus, msg) ==
  /\ gpaPc' = "settled"
  /\ result' = [settled |-> TRUE, success |-> FALSE, data |-> NoData, error |-> ""]
  /\ st' = [x \in Calls |-> IF x = c THEN cStatus
                            ELSE IF st[x] = "inflight" THEN "abandoned" ELSE st[x]]
  /\ UNCHANGED issued

\* the catch block: call c raised (or the BOM text could not be built);
\* calls still in flight are abandoned, their results are never read
Catch(c, cStatus, msg) ==
  /\ gpaPc' = "settled"
  /\ result' = [settled |-> TRUE, success |-> FALSE, data |-> NoData, error |-> msg]
  /\ st' = [x \in Calls |-> IF x = c THEN cStatus
                            ELSE IF st[x] = "inflight" THEN "abandoned" ELSE st[x]]
  /\ UNCHANGED issued

MapIsNotAFunction == "billOfMaterials.billOfMaterials.map is not a function"

\* the sequential revision after generateCode returned: build bomString and
\* call generateRobotImages, which issues the primary image calls
AfterCodeSeq(code) ==
  IF bomOut.t # "arr"
  THEN /\ Catch("code", "ok", MapIsNotAFunction)
       /\ codeOut' = code
       /\ UNCHANGED <<descOut, bomOut, bomString, images, imgVars>>
  ELSE /\ codeOut' = code
       /\ bomString' = BomString(bomOut.items, "seq")
       /\ st' = [st EXCEPT !["code"] = "ok", !["img"] = "inflight"]
       /\ issued' = Append(issued, "img")
       /\ imgPc' = [k \in ImageKinds |->
                      IF imgRev = "plain" \/ k = "concept" THEN "primary" ELSE "idle"]
       /\ imgCalls' = [k \in ImageKinds |->
                      IF imgRev = "plain" \/ k = "concept"
                      THEN [NoCalls EXCEPT !.primary = 1] ELSE NoCalls]
       /\ UNCHANGED <<gpaPc, descOut, bomOut, images, result, imgVal, modelUsed, imgHist>>

\* variant: the assembly call is issued as soon as BOM and code are there,
\* without waiting for the placeholder images
AfterMemberPar_NoWait(st2, bom2) ==
  IF st2["bom"] = "ok" /\ st2["code"] = "ok" /\ st2["asm"] = "none"
  THEN IF bom2.t # "arr"
       THEN /\ gpaPc' = "settled"
            /\ result' = [settled |-> TRUE, success |-> FALSE, data |-> NoData,
                          error |-> MapIsNotAFunction]
            /\ st' = st2
            /\ UNCHANGED <<issued, bomString>>
       ELSE /\ bomString' = BomString(bom2.items, "par")
            /\ st' = [st2 EXCEPT !["asm"] = "inflight"]
            /\ issued' = Append(issued, "asm")
            /\ UNCHANGED <<gpaPc, result>>
  ELSE /\ st' = st2
       /\ UNCHANGED <<gpaPc, result, issued, bomString>>

\* the Promise.all revision once one of its four members has fulfilled:
\* st2, bom2 are the statuses and the BOM after that member's completion
AfterMemberPar(st2, bom2) ==
  IF \A c \in {"bom", "code", "ph_circuit", "ph_3d"} : st2[c] = "ok"
  THEN IF bom2.t # "arr"
       THEN /\ gpaPc' = "settled"
            /\ result' = [settled |-> TRUE, success |-> FALSE, data |-> NoData,
                          error |-> MapIsNotAFunction]
            /\ st' = st2
            /\ UNCHANGED <<issued, bomString>>
       ELSE /\ bomString' = BomString(bom2.items, "par")
            /\ st' = [st2 EXCEPT !["asm"] = "inflight"]
            /\ issued' = Append(issued, "asm")
            /\ UNCHANGED <<gpaPc, result>>
  ELSE /\ st' = st2
       /\ UNCHANGED <<gpaPc, result, issued, bomString>>

(***************************************************************************)
(* Home page                                                               *)
(***************************************************************************)
\* GeneratingStep is rendered: its state is initial, the effect starts the
\* two intervals
GenMount ==
  /\ progress' = 0
  /\ currentStep' = steps[1]
  /\ stepIndex' = 0
  /\ timer' = TRUE
  /\ stepInterval' = TRUE

\* GeneratingStep is removed: the cleanup clears both intervals, the state
\* is gone
GenUnmount ==
  /\ progress' = 0
  /\ currentStep' = steps[1]
  /\ stepIndex' = 0
  /\ timer' = FALSE
  /\ stepInterval' = FALSE

\* variant: with an image, 'generating' is only set once the image is read
Submit_LateGenerating(r) ==
  /\ projectState = "input"
  /\ projectState' = IF r.image THEN "input" ELSE "generating"
  /\ req' = r
  /\ IF r.image
     THEN /\ hgPc' = "readImage"
          /\ UNCHANGED <<srvVars, imgVars>>
     ELSE /\ hgPc' = "awaitAction"
          /\ StartAction
  /\ toast' = ""
  /\ formError' = FALSE
  /\ GenMount
  /\ UNCHANGED <<revVars, projectData, placeholders, dlPc, zip>>

\* InputStep submits a valid form: handleGenerate up to its first await
\* (InputStep is unmounted, its form state is gone)
Submit(r) ==
  /\ projectState = "input"
  /\ projectState' = "generating"
  /\ req' = r
  /\ IF r.image
     THEN /\ hgPc' = "readImage"
          /\ UNCHANGED <<srvVars, imgVars>>
     ELSE /\ hgPc' = "awaitAction"
          /\ StartAction
  /\ toast' = ""
  /\ formError' = FALSE
  /\ GenMount
  /\ UNCHANGED <<revVars, projectData, placeholders, dlPc, zip>>

\* form.handleSubmit(onSubmit): the resolver runs first; onSubmit, which is
\* handleGenerate, is called only with a value that parses
handleSubmit(f) ==
  /\ projectState = "input"
  /\ IF formSchema(f)
     THEN Submit(f)
     ELSE /\ formError' = TRUE
          /\ UNCHANGED <<revVars, projectState, projectData, toast, hgPc, req,
                         placeholders, dlPc, zip, genVars, srvVars, imgVars>>

\* the FileReader settles: onload resolves and the action is called; onerror
\* rejects, and handleGenerate ends with that rejection
ImageRead(ok) ==
  /\ hgPc = "readImage"
  /\ IF ok
     THEN /\ hgPc' = "awaitAction"
          /\ StartAction
     ELSE /\ hgPc' = "thrown"
          /\ UNCHANGED <<srvVars, imgVars>>
  /\ UNCHANGED <<revVars, projectState, projectData, toast, req, viewVars>>

\* variant: on a failure what the request had produced so far is kept
ActionResolve_KeepPartial ==
  /\ hgPc = "awaitAction"
  /\ gpaPc = "settled"
  /\ IF result.success /\ result.data.present
     THEN /\ projectData' = result.data
          /\ projectState' = "results"
          /\ placeholders' \in [circuit : BOOLEAN, model : BOOLEAN]
          /\ UNCHANGED toast
     ELSE /\ toast' = IF result.error # "" THEN result.error
                      ELSE "An unknown error occurred."
          /\ projectState' = "input"
          /\ projectData' = [NoData EXCEPT !.projectDescription = descOut,
                                           !.billOfMaterials = bomOut,
                                           !.code = codeOut]
          /\ UNCHANGED placeholders
  /\ hgPc' = "idle"
  /\ req' = NoRequest
  /\ EndAction
  /\ GenUnmount
  /\ UNCHANGED <<revVars, formError, dlPc, zip>>

\* the awaited generateProjectAction call resolves with the action's result
ActionResolve ==
  /\ hgPc = "awaitAction"
  /\ gpaPc = "settled"
  /\ IF result.success /\ result.data.present
     THEN /\ projectData' = result.data
          /\ projectState' = "results"
          /\ placeholders' \in [circuit : BOOLEAN, model : BOOLEAN]
          /\ UNCHANGED toast
     ELSE /\ toast' = IF result.error # "" THEN result.error
                      ELSE "An unknown error occurred."
          /\ projectState' = "input"
          /\ UNCHANGED <<projectData, placeholders>>
  /\ hgPc' = "idle"
  /\ req' = NoRequest
  /\ EndAction
  /\ GenUnmount
  /\ UNCHANGED <<revVars, formError, dlPc, zip>>

\* the awaited server-action call rejects (the request or its response is
\* lost): handleGenerate has no catch and ends with the rejection
ActionReject ==
  /\ hgPc = "awaitAction"
  /\ gpaPc = "settled"
  /\ hgPc' = "thrown"
  /\ EndAction
  /\ UNCHANGED <<revVars, projectState, projectData, toast, req, viewVars>>

\* variant: Start Over leaves the project in place
handleReset_KeepData ==
  /\ projectState = "results"
  /\ projectData.present
  /\ projectState' = "input"
  /\ placeholders' = NoPlaceholders
  /\ dlPc' = "idle"
  /\ zip' = {}
  /\ UNCHANGED <<revVars, projectData, toast, hgPc, req, formError, genVars,
                 srvVars, imgVars>>

\* ResultsDisplay is unmounted with it; a download still running then is
\* not followed any further
handleReset ==
  /\ projectState = "results"
  /\ projectData.present
  /\ projectData' = NoData
  /\ projectState' = "input"
  /\ placeholders' = NoPlaceholders
  /\ dlPc' = "idle"
  /\ zip' = {}
  /\ UNCHANGED <<revVars, toast, hgPc, req, formError, genVars, srvVars, imgVars>>

(***************************************************************************)
(* ResultsDisplay.handleDownload                                           *)
(***************************************************************************)
\* the four zip.file() calls that do not wait for anything
TextEntries(data) ==
  {Entry(<<"project_description.txt">>, data.projectDescription),
   Entry(<<"bill_of_materials.csv">>, bomCsv(data.billOfMaterials.items)),
   Entry(<<"code." \o codeFileExtension(data.platform)>>, data.code),
   Entry(<<"assembly_instructions.md">>, data.assemblyInstructions.assemblyInstructions)}

\* where handleDownload goes after the circuit image (or after the text
\* entries when there is none): the model image, or generateAsync + saveAs
AfterCircuit == IF placeholders.model THEN "fetchModel" ELSE "saved"

\* variant: a file is only added when its generator output is not empty
handleDownload_SkipEmpty ==
  /\ projectState = "results"
  /\ projectData.present
  /\ dlPc \in {"idle", "saved", "thrown"}
  /\ zip' = {e \in TextEntries(projectData) : e.content # << >>}
  /\ dlPc' = IF placeholders.circuit THEN "fetchCircuit" ELSE AfterCircuit
  /\ UNCHANGED <<revVars, projectState, projectData, toast, hgPc, req, formError,
                 placeholders, genVars, srvVars, imgVars>>

\* the Download ZIP button, up to the first await (one download is followed
\* at a time)
handleDownload ==
  /\ projectState = "results"
  /\ projectData.present
  /\ dlPc \in {"idle", "saved", "thrown"}
  /\ zip' = TextEntries(projectData)
  /\ dlPc' = IF placeholders.circuit THEN "fetchCircuit" ELSE AfterCircuit
  /\ UNCHANGED <<revVars, projectState, projectData, toast, hgPc, req, formError,
                 placeholders, genVars, srvVars, imgVars>>

\* variant: the archive gets the generated image when there is one
ImageEntry_Generated(name, id, out, generated) ==
  Entry(<<"images", name>>, IF generated # << >> THEN generated ELSE Blob(id, out))

\* zip.file("images/<name>", blob)
ImageEntry(name, id, out, generated) == Entry(<<"images", name>>, Blob(id, out))

\* fetch(circuitImage.imageUrl) settles: a throw ends handleDownload with
\* the rejection and nothing is saved
CircuitFetched(out) ==
  /\ dlPc = "fetchCircuit"
  /\ IF out = "throw"
     THEN /\ dlPc' = "thrown"
          /\ zip' = {}
     ELSE /\ dlPc' = AfterCircuit
          /\ zip' = zip \cup {ImageEntry("circuit_diagram.jpg", "circuit-diagram", out,
                                         projectData.circuitDiagramImage)}
  /\ UNCHANGED <<revVars, projectState, projectData, toast, hgPc, req, formError,
                 placeholders, genVars, srvVars, imgVars>>

\* fetch(modelImage.imageUrl) settles; then generateAsync and saveAs
ModelFetched(out) ==
  /\ dlPc = "fetchModel"
  /\ IF out = "throw"
     THEN /\ dlPc' = "thrown"
          /\ zip' = {}
     ELSE /\ dlPc' = "saved"
          /\ zip' = zip \cup {ImageEntry("3d_model.jpg", "3d-model", out,
                                         projectData.conceptImage)}
  /\ UNCHANGED <<revVars, projectState, projectData, toast, hgPc, req, formError,
                 placeholders, genVars, srvVars, imgVars>>

(***************************************************************************)
(* Completion of the orchestrator's chat calls                             *)
(***************************************************************************)
\* variant: the Promise.all revision starts with the BOM call alone
DescComplete_OneAtATime(r) ==
  /\ gpaPc = "running"
  /\ st["desc"] = "inflight"
  /\ lastChat' = [call |-> "desc", r |-> r]
  /\ LET out == generateProjectDescription(descRev, req.description.text, r)
     IN IF out.raised
        THEN /\ Catch("desc", "raised", out.msg)
             /\ UNCHANGED <<descOut, bomOut, codeOut, bomString, images>>
        ELSE /\ descOut' = out.val
             /\ st' = [st EXCEPT !["desc"] = "ok", !["bom"] = "inflight"]
             /\ issued' = Append(issued, "bom")
             /\ UNCHANGED <<gpaPc, bomOut, codeOut, bomString, images, result>>
  /\ UNCHANGED <<revVars, uiVars, imgVars>>

DescComplete(r) ==
  /\ gpaPc = "running"
  /\ st["desc"] = "inflight"
  /\ lastChat' = [call |-> "desc", r |-> r]
  /\ LET out == generateProjectDescription(descRev, req.description.text, r)
     IN IF out.raised
        THEN /\ Catch("desc", "raised", out.msg)
             /\ UNCHANGED <<descOut, bomOut, codeOut, bomString, images>>
        ELSE /\ descOut' = out.val
             /\ IF orchRev = "seq"
                THEN /\ st' = [st EXCEPT !["desc"] = "ok", !["bom"] = "inflight"]
                     /\ issued' = Append(issued, "bom")
                ELSE /\ st' = [st EXCEPT !["desc"] = "ok", !["bom"] = "inflight",
                                         !["code"] = "inflight",
                                         !["ph_circuit"] = "inflight",
                                         !["ph_3d"] = "inflight"]
                     /\ issued' = issued \o <<"bom", "code", "ph_circuit", "ph_3d">>
             /\ UNCHANGED <<gpaPc, bomOut, codeOut, bomString, images, result>>
  /\ UNCHANGED <<revVars, uiVars, imgVars>>

\* variant: the request goes on with an empty BOM after the generator raised
BomComplete_ContinueOnRaise(r) ==
  /\ gpaPc = "running"
  /\ st["bom"] = "inflight"
  /\ lastChat' = [call |-> "bom", r |-> r]
  /\ LET out == generateBillOfMaterials(r)
         val == IF out.raised THEN JArr(<< >>) ELSE out.val
         end == IF out.raised THEN "raised" ELSE "ok"
     IN /\ bomOut' = val
        /\ IF orchRev = "seq"
           THEN /\ st' = [st EXCEPT !["bom"] = end, !["code"] = "inflight"]
                /\ issued' = Append(issued, "code")
                /\ UNCHANGED <<gpaPc, result, bomString>>
           ELSE AfterMemberPar([st EXCEPT !["bom"] = end], val)
        /\ UNCHANGED <<descOut, codeOut, images>>
  /\ UNCHANGED <<revVars, uiVars, imgVars>>

BomComplete(r) ==
  /\ gpaPc = "running"
  /\ st["bom"] = "inflight"
  /\ lastChat' = [call |-> "bom", r |-> r]
  /\ LET out == generateBillOfMaterials(r)
     IN IF out.raised
        THEN /\ Catch("bom", "raised", out.msg)
             /\ UNCHANGED <<descOut, bomOut, codeOut, bomString, images>>
        ELSE /\ bomOut' = out.val
             /\ IF orchRev = "seq"
                THEN /\ st' = [st EXCEPT !["bom"] = "ok", !["code"] = "inflight"]
                     /\ issued' = Append(issued, "code")
                     /\ UNCHANGED <<gpaPc, result, bomString>>
                ELSE AfterMemberPar([st EXCEPT !["bom"] = "ok"], out.val)
             /\ UNCHANGED <<descOut, codeOut, images>>
  /\ UNCHANGED <<revVars, uiVars, imgVars>>

\* getPlaceholderDataUri: '' when the id is not listed, the fetch throws or
\* the status is not OK; it never rejects
getPlaceholderDataUri(out) ==
  IF out = "ok" THEN <<"data:", "image/jpeg", ";base64,", "cGxhY2Vob2xkZXI">> ELSE << >>

PlaceholderOutcomes == {"unlisted", "throw", "notok", "ok"}

PlaceholderComplete(c, out) ==
  /\ gpaPc = "running"
  /\ c \in {"ph_circuit", "ph_3d"}
  /\ st[c] = "inflight"
  /\ images' = IF c = "ph_circuit"
               THEN [images EXCEPT !.circuitDiagram = getPlaceholderDataUri(out)]
               ELSE images
  /\ AfterMemberPar([st EXCEPT ![c] = "ok"], bomOut)
  /\ UNCHANGED <<descOut, bomOut, codeOut, lastChat>>
  /\ UNCHANGED <<revVars, uiVars, imgVars>>

CodeComplete(r) ==
  /\ gpaPc = "running"
  /\ st["code"] = "inflight"
  /\ lastChat' = [call |-> "code", r |-> r]
  /\ LET out == generateCode(r)
     IN IF out.raised
        THEN /\ Catch("code", "raised", out.msg)
             /\ UNCHANGED <<descOut, bomOut, codeOut, bomString, images, imgVars>>
        ELSE IF orchRev = "seq"
        THEN AfterCodeSeq(out.val)
        ELSE /\ codeOut' = out.val
             /\ AfterMemberPar([st EXCEPT !["code"] = "ok"], bomOut)
             /\ UNCHANGED <<descOut, bomOut, images, imgVars>>
  /\ UNCHANGED <<revVars, uiVars>>

(***************************************************************************)
(* generateRobotImages                                                     *)
(***************************************************************************)
\* generateConceptImage / generateCircuitDiagram returns v for image k; in
\* the refinement revision the refinement call for k is issued with it
ImageSettled(k, v) ==
  /\ imgVal' = [imgVal EXCEPT ![k] = v]
  /\ IF imgRev = "refine"
     THEN /\ imgPc' = [imgPc EXCEPT ![k] = "refine"]
          /\ imgCalls' = [imgCalls EXCEPT ![k].refine = @ + 1]
     ELSE /\ imgPc' = [imgPc EXCEPT ![k] = "done"]
          /\ UNCHANGED imgCalls
  /\ UNCHANGED srvVars

\* variant: a primary response without image data also triggers the fallback
ImageUnwrap_FallbackOnEmpty(k, model, resp) ==
  LET h == HandleImageResponse(model, resp)
  IN IF h.next = "fetch"
     THEN /\ imgPc' = [imgPc EXCEPT ![k] = "fetch"]
          /\ UNCHANGED <<imgVal, imgCalls, srvVars>>
     ELSE IF h.val = << >> /\ imgPc[k] = "primary"
     THEN /\ imgPc' = [imgPc EXCEPT ![k] = "secondary"]
          /\ imgCalls' = [imgCalls EXCEPT ![k].secondary = @ + 1]
          /\ UNCHANGED <<imgVal, srvVars>>
     ELSE ImageSettled(k, h.val)

\* the response of a call that did not throw is unwrapped
ImageUnwrap(k, model, resp) ==
  LET h == HandleImageResponse(model, resp)
  IN IF h.next = "fetch"
     THEN /\ imgPc' = [imgPc EXCEPT ![k] = "fetch"]
          /\ UNCHANGED <<imgVal, imgCalls, srvVars>>
     ELSE ImageSettled(k, h.val)

PrimaryComplete(k, resp) ==
  /\ st["img"] = "inflight"
  /\ imgPc[k] = "primary"
  /\ imgHist' = [imgHist EXCEPT ![k].primary =
                                 IF resp.k = "throw" THEN "threw" ELSE "returned"]
  /\ IF resp.k = "throw"
     THEN /\ modelUsed' = [modelUsed EXCEPT ![k] = "dall-e-3"]
          /\ imgPc' = [imgPc EXCEPT ![k] = "secondary"]
          /\ imgCalls' = [imgCalls EXCEPT ![k].secondary = @ + 1]
          /\ UNCHANGED <<imgVal, srvVars>>
     ELSE /\ UNCHANGED modelUsed
          /\ ImageUnwrap(k, modelUsed[k], resp)
  /\ UNCHANGED <<revVars, uiVars>>

SecondaryComplete(k, resp) ==
  /\ st["img"] = "inflight"
  /\ imgPc[k] = "secondary"
  /\ imgHist' = [imgHist EXCEPT ![k].secondary =
                                 IF resp.k = "throw" THEN "threw" ELSE "returned"]
  /\ IF resp.k = "throw"
     THEN ImageSettled(k, << >>)
     ELSE ImageUnwrap(k, modelUsed[k], resp)
  /\ UNCHANGED <<revVars, uiVars, modelUsed>>

FetchComplete(k, out) ==
  /\ st["img"] = "inflight"
  /\ imgPc[k] = "fetch"
  /\ imgHist' = [imgHist EXCEPT ![k].fetch = IF out = "ok" THEN "ok" ELSE "failed"]
  /\ ImageSettled(k, imageUrlToDataUri(out))
  /\ UNCHANGED <<revVars, uiVars, modelUsed>>

\* refinement revision: the refinement call for k settles; after the concept
\* image the circuit diagram is generated, after the circuit diagram
\* generateRobotImages returns
RefineComplete(k, resp) ==
  /\ st["img"] = "inflight"
  /\ imgPc[k] = "refine"
  /\ imgHist' = [imgHist EXCEPT ![k].refine =
                                 IF resp.k = "throw" THEN "threw"
                                 ELSE IF resp.b64 = << >> THEN "nodata" ELSE "returned"]
  /\ imgVal' = [imgVal EXCEPT ![k] = refineImage(imgVal[k], resp)]
  /\ IF k = "concept"
     THEN /\ imgPc' = [imgPc EXCEPT !["concept"] = "done", !["circuit"] = "primary"]
          /\ imgCalls' = [imgCalls EXCEPT !["circuit"].primary = @ + 1]
     ELSE /\ imgPc' = [imgPc EXCEPT ![k] = "done"]
          /\ UNCHANGED imgCalls
  /\ UNCHANGED <<revVars, uiVars, modelUsed, srvVars>>

\* variant: generateRobotImages returns as soon as one image is there
ImagesReturn_FirstSettled ==
  /\ st["img"] = "inflight"
  /\ \E k \in ImageKinds : imgPc[k] = "done"
  /\ images' = [conceptImage |-> imgVal["concept"], circuitDiagram |-> imgVal["circuit"]]
  /\ st' = [st EXCEPT !["img"] = "ok", !["asm"] = "inflight"]
  /\ issued' = Append(issued, "asm")
  /\ imgPc' = [k \in ImageKinds |-> "idle"]
  /\ imgVal' = [k \in ImageKinds |-> << >>]
  /\ modelUsed' = [k \in ImageKinds |-> "gpt-image-1"]
  /\ imgCalls' = [k \in ImageKinds |-> NoCalls]
  /\ imgHist' = [k \in ImageKinds |-> NoHist]
  /\ UNCHANGED <<gpaPc, descOut, bomOut, codeOut, bomString, result, lastChat>>
  /\ UNCHANGED <<revVars, uiVars>>

\* both images have their final value: generateRobotImages returns them (its
\* locals are gone) and the orchestrator issues the assembly-instruction call
ImagesReturn ==
  /\ st["img"] = "inflight"
  /\ \A k \in ImageKinds : imgPc[k] = "done"
  /\ images' = [conceptImage |-> imgVal["concept"], circuitDiagram |-> imgVal["circuit"]]
  /\ st' = [st EXCEPT !["img"] = "ok", !["asm"] = "inflight"]
  /\ issued' = Append(issued, "asm")
  /\ imgPc' = [k \in ImageKinds |-> "idle"]
  /\ imgVal' = [k \in ImageKinds |-> << >>]
  /\ modelUsed' = [k \in ImageKinds |-> "gpt-image-1"]
  /\ imgCalls' = [k \in ImageKinds |-> NoCalls]
  /\ imgHist' = [k \in ImageKinds |-> NoHist]
  /\ UNCHANGED <<gpaPc, descOut, bomOut, codeOut, bomString, result, lastChat>>
  /\ UNCHANGED <<revVars, uiVars>>

(***************************************************************************)
(* Assembly instructions, the action's return, abandoned calls             *)
(***************************************************************************)
AsmComplete(r) ==
  /\ gpaPc = "running"
  /\ st["asm"] = "inflight"
  /\ lastChat' = [call |-> "asm", r |-> r]
  /\ LET out == generateAssemblyInstructions(r)
     IN IF out.raised
        THEN Catch("asm", "raised", out.msg)
        ELSE /\ gpaPc' = "settled"
             /\ st' = [st EXCEPT !["asm"] = "ok"]
             /\ result' =
                  [settled |-> TRUE, success |-> TRUE, error |-> "",
                   data |-> [present |-> TRUE,
                             projectDescription |-> descOut,
                             billOfMaterials |-> bomOut,
                             code |-> codeOut,
                             assemblyInstructions |-> out.val,
                             conceptImage |->
                               IF orchRev = "seq" THEN images.conceptImage ELSE << >>,
                             circuitDiagramImage |->
                               IF orchRev = "seq" THEN images.circuitDiagram ELSE << >>,
                             platform |-> req.platform]]
             /\ UNCHANGED issued
  /\ UNCHANGED <<descOut, bomOut, codeOut, bomString, images>>
  /\ UNCHANGED <<revVars, uiVars, imgVars>>

\* a call abandoned by the rejected Promise.all settles; nothing reads its
\* result
AbandonedSettle(c) ==
  /\ st[c] = "abandoned"
  /\ st' = [st EXCEPT ![c] = "dropped"]
  /\ UNCHANGED <<revVars, uiVars, imgVars, gpaPc, issued, descOut, bomOut,
                 codeOut, bomString, images, result, lastChat>>

(***************************************************************************)
(* GeneratingStep: the two intervals                                       *)
(***************************************************************************)
\* variant: the bar runs on to 100
ProgressTick_ToHundred ==
  /\ timer
  /\ IF progress >= 100
     THEN /\ timer' = FALSE
          /\ progress' = 100
     ELSE /\ progress' = progress + 5
          /\ UNCHANGED timer
  /\ UNCHANGED <<revVars, projectState, projectData, toast, hgPc, req, formError,
                 placeholders, dlPc, zip, currentStep, stepIndex, stepInterval,
                 srvVars, imgVars>>

\* the 400 ms interval fires: setProgress with its updater
ProgressTick ==
  /\ timer
  /\ IF progress >= 95
     THEN /\ timer' = FALSE
          /\ progress' = 95
     ELSE /\ progress' = progress + 5
          /\ UNCHANGED timer
  /\ UNCHANGED <<revVars, projectState, projectData, toast, hgPc, req, formError,
                 placeholders, dlPc, zip, currentStep, stepIndex, stepInterval,
                 srvVars, imgVars>>

\* the step interval fires
StepTick ==
  /\ stepInterval
  /\ stepIndex' = stepIndex + 1
  /\ IF stepIndex + 1 < Len(steps)
     THEN /\ currentStep' = steps[stepIndex + 2]
          /\ UNCHANGED stepInterval
     ELSE /\ stepInterval' = FALSE
          /\ UNCHANGED currentStep
  /\ UNCHANGED <<revVars, projectState, projectData, toast, hgPc, req, formError,
                 placeholders, dlPc, zip, progress, timer, srvVars, imgVars>>

Next ==
  \/ \E f \in FormValues : handleSubmit(f)
  \/ \E ok \in BOOLEAN : ImageRead(ok)
  \/ ActionResolve
  \/ ActionReject
  \/ handleReset
  \/ handleDownload
  \/ \E out \in FetchOutcomes : CircuitFetched(out)
  \/ \E out \in FetchOutcomes : ModelFetched(out)
  \/ \E r \in DescResponses : DescComplete(r)
  \/ \E r \in BomResponses : BomComplete(r)
  \/ \E r \in CodeResponses : CodeComplete(r)
  \/ \E c \in {"ph_circuit", "ph_3d"}, out \in PlaceholderOutcomes : PlaceholderComplete(c, out)
  \/ \E k \in ImageKinds, resp \in ImageResponses : PrimaryComplete(k, resp)
  \/ \E k \in ImageKinds, resp \in ImageResponses : SecondaryComplete(k, resp)
  \/ \E k \in ImageKinds, out \in FetchOutcomes : FetchComplete(k, out)
  \/ \E k \in ImageKinds, resp \in ImageResponses : RefineComplete(k, resp)
  \/ ImagesReturn
  \/ \E r \in AssemblyResponses : AsmComplete(r)
  \/ \E c \in Calls : AbandonedSettle(c)

Spec == Init /\ [][Next]_vars

(***************************************************************************)
(* The page with the intervals of GeneratingStep running: one form value   *)
(* of each kind and, per call, one response of each kind that matters to   *)
(* the page                                                                *)
(***************************************************************************)
ProgressForms ==
  {[description |-> [text |-> <<"line robot">>, len |-> 10], platform |-> "Arduino",
    image |-> i] : i \in BOOLEAN}
    \cup {[description |-> [text |-> <<"too short">>, len |-> 9], platform |-> "Arduino",
           image |-> FALSE]}

ProgressNext ==
  \/ ProgressTick
  \/ StepTick
  \/ \E f \in ProgressForms : handleSubmit(f)
  \/ \E ok \in BOOLEAN : ImageRead(ok)
  \/ ActionResolve
  \/ ActionReject
  \/ handleReset
  \/ \E r \in {RespThrow, RespJson(JStr(<<"a walking robot">>))} : DescComplete(r)
  \/ BomComplete(RespJson(JArr(<< >>)))
  \/ CodeComplete(RespJson(JStr(<<"loop()">>)))
  \/ \E c \in {"ph_circuit", "ph_3d"} : PlaceholderComplete(c, "ok")
  \/ \E k \in ImageKinds : PrimaryComplete(k, ImgResp("ok", <<"iVBOR">>, << >>))
  \/ \E k \in ImageKinds : RefineComplete(k, ImgResp("throw", << >>, << >>))
  \/ ImagesReturn
  \/ AsmComplete(Resp("json", <<"{json}">>, JStr(<<"1. Attach the servo">>), Undef))

ProgressSpec == Init /\ [][ProgressNext]_vars

(***************************************************************************)
(* Properties                                                              *)
(***************************************************************************)
\* the message each generator wraps its failures in
FailMsg(c) == CASE c = "desc" -> "Failed to generate project description"
                [] c = "bom" -> "Failed to generate bill of materials"
                [] c = "code" -> "Failed to generate code"
                [] OTHER -> "Failed to generate assembly instructions"

Failure(msg) == [settled |-> TRUE, success |-> FALSE, data |-> NoData, error |-> msg]

\* the chat completion that settled last was call c with a response of kind k
LastChatWas(c, ks) == lastChat.call = c /\ lastChat.r.k \in ks

BothTiersThrew(k) == imgHist[k].primary = "threw" /\ imgHist[k].secondary = "threw"

RefinementFailed(k) == imgHist[k].refine \in {"threw", "nodata"}

\* C1: whenever handleGenerate has finished -- it returned, or it ended with
\* the rejection of the image read or of the generateProjectAction call --
\* the UI is not left in 'generating'.  (Only handleGenerate ever leaves
\* 'generating', so a finished run in 'generating' stays there forever.)
C1_FinishedRunLeavesGenerating ==
  hgPc \in {"idle", "thrown"} => projectState # "generating"

\* C2: once a required generator has raised, generateProjectAction has
\* returned (it did not throw) one result with success = false, no data and
\* the single error message of that generator.
C2_RaisedGeneratorGivesOneError ==
  \A c \in {"desc", "bom", "code", "asm"} :
    st[c] = "raised" => gpaPc = "settled" /\ result = Failure(FailMsg(c))

C2_Witness ==
  /\ orchRev = "par"
  /\ st["code"] = "raised"
  /\ st["bom"] = "abandoned"
  /\ result.settled

\* C3: no BOM, code, image or assembly call is issued before the description
\* call has completed; the assembly call is issued only after the BOM call,
\* the code call and the image (or placeholder) generation have completed,
\* and it is the last call issued.
C3_CallOrder ==
  /\ \A c \in Calls \ {"desc"} : st[c] # "none" => st["desc"] = "ok"
  /\ \A k \in ImageKinds : imgPc[k] # "idle" => st["desc"] = "ok" /\ st["img"] = "inflight"
  /\ st["asm"] # "none" =>
       /\ st["bom"] = "ok"
       /\ st["code"] = "ok"
       /\ IF orchRev = "seq" THEN st["img"] = "ok"
          ELSE st["ph_circuit"] = "ok" /\ st["ph_3d"] = "ok"
       /\ \A k \in ImageKinds : imgPc[k] = "idle"
       /\ issued[Len(issued)] = "asm"

C3_Witness ==
  /\ st["asm"] = "inflight"
  /\ orchRev = "par"
  /\ issued = <<"desc", "bom", "code", "ph_circuit", "ph_3d", "asm">>

\* C4 as stated: in the fail-soft revision, after an upstream call that
\* threw, returned no content or returned content that is not valid JSON,
\* generateProjectDescription has returned the user's input wrapped in the
\* fixed phrase.
C4_FallbackPhraseAlsoForNonJson ==
  (descRev = "soft" /\ LastChatWas("desc", {"throw", "none", "text"})) =>
    (st["desc"] = "ok" /\ descOut = FallbackDescription(req.description.text))

\* C4 amended: the fail-soft revision never raises; after an upstream call
\* that threw or returned no content the text is the user's input wrapped in
\* the fixed phrase, and after content that is not valid JSON the text is
\* that raw content.
C4_SoftDescriptionNeverRaises ==
  /\ descRev = "soft" => st["desc"] # "raised"
  /\ (descRev = "soft" /\ lastChat.call = "desc") => st["desc"] = "ok"
  /\ (descRev = "soft" /\ LastChatWas("desc", {"throw", "none"})) =>
       descOut = <<"Robot project based on your description: ">> \o req.description.text
  /\ (descRev = "soft" /\ LastChatWas("desc", {"text"})) =>
       descOut = lastChat.r.content

C4_Witness ==
  /\ descRev = "soft"
  /\ LastChatWas("desc", {"text"})
  /\ st["desc"] = "ok"
  /\ descOut = <<"plain words">>

C6_MissingKeyGivesEmptyBom ==
  /\ (LastChatWas("bom", {"json"}) /\ ~Truthy(lastChat.r.f)) =>
       /\ st["bom"] = "ok"
       /\ bomOut = JArr(<< >>)
       /\ gpaPc = "running"
       /\ st["code"] \in {"inflight", "ok"}
  /\ (st["bom"] = "ok" /\ bomOut = JArr(<< >>) /\ (st["img"] # "none" \/ st["asm"] # "none")) =>
       bomString = << >>

C6_Witness ==
  /\ LastChatWas("bom", {"json"})
  /\ lastChat.r.f = Undef
  /\ bomOut = JArr(<< >>)
  /\ st["code"] = "inflight"

\* C7: after an upstream call of generateCode or of
\* generateAssemblyInstructions that threw, returned no content or returned
\* unparseable content, that generator has raised its error and
\* generateProjectAction has ended with success = false.
C7_CodeAndAssemblyFailHard ==
  \A c \in {"code", "asm"} :
    LastChatWas(c, {"throw", "none", "text"}) =>
      (st[c] = "raised" /\ gpaPc = "settled" /\ result = Failure(FailMsg(c)))

C7_Witness ==
  /\ LastChatWas("code", {"none"})
  /\ st["code"] = "raised"
  /\ ~result.success
  /\ result.settled

\* C8: the format tag of every returned assembly result is 'pdf' or
\* 'markdown', and it is 'pdf' exactly when the parsed response carries the
\* string 'pdf' in assemblyInstructionsFormat.
C8_FormatTag ==
  (result.settled /\ result.success) =>
    LET tag == result.data.assemblyInstructions.assemblyInstructionsFormat
    IN /\ lastChat.call = "asm"
       /\ tag \in {"pdf", "markdown"}
       /\ (tag = "pdf") <=> (lastChat.r.fmt = JStr(<<"pdf">>))

C8_Witness ==
  /\ result.settled
  /\ result.success
  /\ lastChat.r.fmt = JStr(<<"PDF">>)
  /\ result.data.assemblyInstructions.assemblyInstructionsFormat = "markdown"

\* the secondary model is called only if the primary call threw, and then
\* exactly once
SecondaryOnlyAfterThrow(k) ==
  /\ imgCalls[k].primary <= 1
  /\ imgCalls[k].secondary <= 1
  /\ (imgCalls[k].secondary = 1) <=> (imgHist[k].primary = "threw")

\* C9 as stated: per image the secondary model is called only after the
\* primary call threw, exactly once, and at most two image-model calls are
\* made for the image, which is empty if both tiers failed -- in both
\* revisions.
C9_AtMostTwoImageCalls ==
  \A k \in ImageKinds :
    /\ SecondaryOnlyAfterThrow(k)
    /\ imgCalls[k].primary + imgCalls[k].secondary + imgCalls[k].refine <= 2
    /\ (imgPc[k] = "done" /\ BothTiersThrew(k)) => imgVal[k] = << >>

\* C9 amended: per image the secondary model is called only after the primary
\* call threw, exactly once, and generateConceptImage / generateCircuitDiagram
\* make at most two image-model calls and return the empty image if both
\* threw; the refinement revision then always makes one more image-model call
\* for the image (at most three in all), the plain revision none.
C9_TwoTiersPlusRefinement ==
  \A k \in ImageKinds :
    /\ SecondaryOnlyAfterThrow(k)
    /\ imgCalls[k].primary + imgCalls[k].secondary <= 2
    /\ imgCalls[k].refine = IF imgRev = "refine" /\ imgPc[k] \in {"refine", "done"}
                            THEN 1 ELSE 0
    /\ imgCalls[k].primary + imgCalls[k].secondary + imgCalls[k].refine <= 3
    /\ (BothTiersThrew(k) /\ imgPc[k] = (IF imgRev = "refine" THEN "refine" ELSE "done"))
         => imgVal[k] = << >>

C9_Witness ==
  /\ imgRev = "refine"
  /\ imgPc["concept"] = "done"
  /\ imgCalls["concept"] = [primary |-> 1, secondary |-> 1, refine |-> 1]
  /\ imgHist["concept"].secondary = "returned"

\* C10 as stated: generateRobotImages never raises, and an image for which
\* both tiers failed, or whose refinement failed, is the empty string.
C10_FailedImageIsEmpty ==
  /\ st["img"] # "raised"
  /\ \A k \in ImageKinds :
       (imgPc[k] = "done" /\ (BothTiersThrew(k) \/ RefinementFailed(k))) => imgVal[k] = << >>

\* C10 amended: generateRobotImages never raises and generateProjectAction
\* goes on to the assembly call; in the plain revision an image for which
\* both tiers threw is the empty string; in the refinement revision a failed
\* refinement leaves the image as the generation step returned it (empty only
\* if that was empty) and a successful refinement gives the refined image.
C10_ImagesNeverAbort ==
  /\ [](st["img"] # "raised")
  /\ [](st["img"] = "ok" => st["asm"] # "none")
  /\ [](\A k \in ImageKinds :
          (imgRev = "plain" /\ imgPc[k] = "done" /\ BothTiersThrew(k)) => imgVal[k] = << >>)
  /\ [](\A k \in ImageKinds :
          (imgPc[k] = "done" /\ imgHist[k].refine = "returned") => imgVal[k] # << >>)
  /\ [][\A k \in ImageKinds :
          (imgPc[k] = "refine" /\ imgPc'[k] = "done" /\ imgHist'[k].refine \in {"threw", "nodata"})
            => imgVal'[k] = imgVal[k]]_vars

C10_Witness ==
  /\ imgRev = "refine"
  /\ \A k \in ImageKinds : imgPc[k] = "done"
  /\ imgHist["circuit"].refine = "threw"
  /\ imgVal["circuit"] # << >>
  /\ BothTiersThrew("concept")
  /\ imgVal["concept"] # << >>

\* the text contains the interpolated field tok
Mentions(text, tok) == \E i \in 1..Len(text) : text[i] = tok

\* `${n}` of a JS number
NumberText(n) == IF n.nan THEN "NaN" ELSE PriceText(n.cents)

\* the content of the archive's file with that path
ZipContent(path) == (CHOOSE e \in zip : e.path = path).content

\* C11 (as claimed): once the assembly-instruction call has been issued, the
\* bill-of-materials text placed into its prompt contains, for every item of
\* the BOM list, the item's component name and the item's quantity.
C11_PromptNamesEveryQuantity ==
  st["asm"] # "none" =>
    \A i \in 1..Len(bomOut.items) :
      /\ Mentions(bomString, bomOut.items[i].component)
      /\ bomOut.items[i].hasQuantity =>
           Mentions(bomString, ToString(bomOut.items[i].quantity))

\* the four files every archive has, for the platform of the shown project
FourFiles ==
  {"project_description.txt", "bill_of_materials.csv",
   IF projectData.platform = "Raspberry Pi" THEN "code.py" ELSE "code.cpp",
   "assembly_instructions.md"}

\* C12 (as claimed): every archive handleDownload saves has exactly five
\* top-level entries: the four files and the images folder.
C12_AlwaysFiveEntries ==
  dlPc = "saved" => TopLevel(zip) = FourFiles \cup {"images"}

\* C12 (amended): every saved archive has the four files, whatever generator
\* outputs were empty, and the images folder exactly when one of the two
\* placeholders was found in the list; a download whose fetch threw saves
\* no archive, and that only happens when a placeholder was found.
C12_FourFilesAndImagesIfFound ==
  /\ dlPc = "saved" =>
       /\ Cardinality(zip) = Cardinality(FileSet(zip))
       /\ TopLevel(zip) =
            FourFiles \cup (IF placeholders.circuit \/ placeholders.model
                            THEN {"images"} ELSE {})
  /\ dlPc = "thrown" => zip = {} /\ (placeholders.circuit \/ placeholders.model)

\* an archive of four entries, from a project with empty code and BOM
C12_Witness ==
  /\ dlPc = "saved"
  /\ ~placeholders.circuit /\ ~placeholders.model
  /\ Cardinality(TopLevel(zip)) = 4
  /\ projectData.code = << >>
  /\ projectData.billOfMaterials.items = << >>

\* C13: the archive has one code file, code.py when the platform is
\* 'Raspberry Pi' and code.cpp otherwise; the code view's language is python
\* exactly when the file is code.py; and the platform of the result, and of
\* the project shown, is the platform of the submitted request.
C13_CodeFileFollowsPlatform ==
  /\ [](dlPc = "saved" =>
          {f \in FileSet(zip) : f[1] \in {"code.py", "code.cpp"}} =
            {<<IF projectData.platform = "Raspberry Pi" THEN "code.py" ELSE "code.cpp">>})
  /\ [](projectState = "results" =>
          /\ projectData.platform \in Platforms
          /\ language(projectData.platform) = "python"
               <=> codeFileExtension(projectData.platform) = "py"
          /\ language(projectData.platform) = "cpp"
               <=> projectData.platform \in {"Arduino", "MicroBit"})
  /\ [](gpaPc = "settled" /\ result.success => result.data.platform = req.platform)
  /\ [][projectState # "results" /\ projectState' = "results"
          => projectData'.platform = req.platform]_vars

\* a Raspberry Pi project downloaded with its code.py
C13_Witness ==
  /\ dlPc = "saved"
  /\ projectData.platform = "Raspberry Pi"
  /\ <<"code.py">> \in FileSet(zip)
  /\ projectData.code # << >>

\* the sum of quantity x unit price in cents over the items that have a
\* quantity (quantity is recorded as 0 where the response left it out)
SumCents(bom) ==
  LET R[i \in 0..Len(bom)] ==
        IF i = 0 THEN 0
        ELSE R[i - 1] + bom[i].approximatePriceUSD * bom[i].quantity
  IN R[Len(bom)]

\* C14 (as claimed): for the BOM list of the project shown, the total
\* BomTable displays is a number, the sum of quantity x unit price over the
\* items, also when the response left a quantity out.
C14_TotalIsSumOfLines ==
  projectState = "results" =>
    totalCost(projectData.billOfMaterials.items) =
      Num(SumCents(projectData.billOfMaterials.items))

\* C15: handleGenerate runs, and calls are issued, only for a form value the
\* schema accepts: while a run or a request exists its description length is
\* within 10..500 and its platform is one of the three; a submit the schema
\* rejects changes nothing but the form's error display.
C15_NoCallWithoutValidForm ==
  /\ [](hgPc # "idle" \/ gpaPc # "idle" \/ issued # << >> =>
          /\ req.description.len >= 10
          /\ req.description.len <= 500
          /\ req.platform \in {"Raspberry Pi", "Arduino", "MicroBit"})
  /\ [](formError => projectState = "input" /\ gpaPc = "idle" /\ issued = << >>)
  /\ [][formError' /\ ~formError =>
          UNCHANGED <<projectState, projectData, hgPc, req, srvVars, imgVars>>]_vars

\* a rejected submit: the form shows its error and nothing was issued
C15_Witness ==
  /\ formError
  /\ projectState = "input"
  /\ hgPc = "idle"
  /\ gpaPc = "idle"
  /\ issued = << >>

\* the image work of the revision: generateRobotImages, or the two
\* placeholder fetches of the Promise.all revision
ImageWork == IF orchRev = "seq" THEN {"img"} ELSE {"ph_circuit", "ph_3d"}

\* C16 (as claimed): once the description is available the BOM, code and
\* image calls are all issued, none waiting for another to complete, and the
\* assembly-instruction call is issued only after all of them completed.
C16_ThreeCallsInParallel ==
  /\ st["desc"] = "ok" =>
       \A c \in {"bom", "code"} \cup ImageWork : st[c] # "none"
  /\ st["asm"] # "none" =>
       \A c \in {"bom", "code"} \cup ImageWork : st[c] = "ok"

\* C16 (amended): in the Promise.all revision the BOM call, the code call
\* and the two placeholder-image fetches are issued together as soon as the
\* description is available; in the sequential revision, which is the one
\* that generates images, the code call is issued only after the BOM call
\* completed and image generation only after the code call completed; in
\* both the assembly-instruction call is issued only after all of them
\* completed.
C16_ParallelOnlyInPromiseAll ==
  /\ orchRev = "par" =>
       /\ st["desc"] = "ok" =>
            \A c \in {"bom", "code", "ph_circuit", "ph_3d"} : st[c] # "none"
       /\ st["img"] = "none"
  /\ orchRev = "seq" =>
       /\ st["code"] # "none" => st["bom"] = "ok"
       /\ st["img"] # "none" => st["code"] = "ok"
       /\ st["ph_circuit"] = "none" /\ st["ph_3d"] = "none"
  /\ st["asm"] # "none" =>
       \A c \in {"bom", "code"} \cup ImageWork : st[c] = "ok"

\* the four members of the Promise.all all in flight
C16_Witness ==
  /\ orchRev = "par"
  /\ \A c \in {"bom", "code", "ph_circuit", "ph_3d"} : st[c] = "inflight"
  /\ issued = <<"desc", "bom", "code", "ph_circuit", "ph_3d">>

\* C17 (as claimed): the description request of a submission that carries an
\* image goes to the multimodal model with the image attached; without an
\* image it goes to the text-only default model with no image part.
C17_ImageSelectsMultimodalModel ==
  st["desc"] # "none" =>
    DescriptionRequest(descRev, ActionDescInput(req)) =
      [model |-> IF req.image THEN "gpt-4o" ELSE "gpt-4-turbo", imagePart |-> req.image]

\* C18: a failure result of generateProjectAction carries no data; when
\* handleGenerate receives it the UI goes to 'input', shows the error and
\* leaves projectData as it was; and in 'input' no project is stored.
C18_FailureStoresNothing ==
  /\ [](result.settled /\ ~result.success => result.data = NoData /\ result.error # "")
  /\ [](projectState = "input" => projectData = NoData)
  /\ [][hgPc = "awaitAction" /\ gpaPc = "settled" /\ ~result.success /\ hgPc' = "idle"
          => /\ projectState' = "input"
             /\ projectData' = projectData
             /\ toast' = result.error]_vars

\* back in 'input' after the code generator raised, which in either
\* revision is after the description had been generated
C18_Witness ==
  /\ projectState = "input"
  /\ hgPc = "idle"
  /\ toast = "Failed to generate code"
  /\ projectData = NoData

\* C19: the image entries of the archive are the fetched placeholders: which
\* entries there are follows from the placeholder lookup alone, and their
\* contents are what the placeholder URLs delivered, never the project's
\* conceptImage or circuitDiagramImage.
C19_ArchiveImagesAreStatic ==
  /\ \A e \in zip : e.path[1] = "images" =>
       /\ \/ /\ e.path = <<"images", "circuit_diagram.jpg">>
             /\ e.content \in {Blob("circuit-diagram", o) : o \in {"ok", "notok"}}
          \/ /\ e.path = <<"images", "3d_model.jpg">>
             /\ e.content \in {Blob("3d-model", o) : o \in {"ok", "notok"}}
       /\ e.content \notin {projectData.conceptImage, projectData.circuitDiagramImage}
  /\ dlPc = "saved" =>
       /\ <<"images", "circuit_diagram.jpg">> \in FileSet(zip) <=> placeholders.circuit
       /\ <<"images", "3d_model.jpg">> \in FileSet(zip) <=> placeholders.model

\* an archive with both image entries, of a project with generated images
C19_Witness ==
  /\ dlPc = "saved"
  /\ projectData.conceptImage # << >>
  /\ projectData.circuitDiagramImage # << >>
  /\ {<<"images", "circuit_diagram.jpg">>, <<"images", "3d_model.jpg">>} \subseteq FileSet(zip)

\* C20 (as claimed): in the saved archive, bill_of_materials.csv holds for
\* every BOM item its total price, quantity x unit price.
C20_CsvHasTotalColumn ==
  dlPc = "saved" =>
    \A i \in 1..Len(projectData.billOfMaterials.items) :
      Mentions(ZipContent(<<"bill_of_materials.csv">>),
               NumberText(LineCost(projectData.billOfMaterials.items[i])))

\* imgVal[k] is what generateConceptImage / generateCircuitDiagram returned
\* (in the refinement revision: until the refinement call settles)
GeneratedValueKnown(k) ==
  imgPc[k] = "refine" \/ (imgRev = "plain" /\ imgPc[k] = "done")

\* the text starts as a data: URI
IsDataUri(v) == v # << >> /\ v[1] \in {"data:", "data:image/png;base64,"}

\* C21: a refinement call that settles never ends generateRobotImages or
\* the request; the image then is the data URI built from the base64 data of
\* the refinement response when it returned some, and the base image,
\* unchanged, when the call threw or returned no base64 data.
C21_RefineReturnsRefinedOrBase ==
  [][\A k \in ImageKinds :
       imgPc[k] = "refine" /\ imgHist'[k].refine # imgHist[k].refine =>
         /\ gpaPc' = "running" /\ st'["img"] = "inflight"
         /\ imgPc'[k] = "done"
         /\ imgHist'[k].refine = "returned" =>
              \E resp \in ImageResponses :
                /\ resp.k = "ok" /\ resp.b64 # << >>
                /\ imgVal'[k] = <<"data:image/png;base64,">> \o resp.b64
         /\ imgHist'[k].refine \in {"threw", "nodata"} => imgVal'[k] = imgVal[k]
         /\ imgHist'[k].refine \in {"returned", "threw", "nodata"}]_vars

\* the concept image kept after its refinement returned no data, and the
\* circuit diagram replaced by its refinement
C21_Witness ==
  /\ imgRev = "refine"
  /\ imgHist["concept"].refine = "nodata"
  /\ imgHist["concept"].fetch = "ok"
  /\ imgVal["concept"] = <<"data:", "image/png", ";base64,", "ZmV0Y2hlZA">>
  /\ imgHist["circuit"].refine = "returned"
  /\ imgVal["circuit"] = <<"data:image/png;base64,", "iVBOR">>

\* C22 (as claimed): within generateRobotImages the concept-image request
\* and the circuit-diagram request are both issued before either completes,
\* and the function returns only after both have settled.
C22_ImageRequestsInParallel ==
  /\ [](st["img"] = "inflight" => \A k \in ImageKinds : imgCalls[k].primary >= 1)
  /\ [][st["img"] = "inflight" /\ st'["img"] = "ok"
          => \A k \in ImageKinds : imgPc[k] = "done"]_vars

\* C22 (amended): in the revision without refinement both requests are
\* issued together when generateRobotImages starts; in the refinement
\* revision the circuit-diagram request is issued only after the concept
\* image has been generated and refined; in both the function returns only
\* after both images have their final value.
C22_ParallelOnlyWithoutRefinement ==
  /\ [](imgRev = "plain" /\ st["img"] = "inflight" =>
          \A k \in ImageKinds : imgCalls[k].primary = 1)
  /\ [](imgRev = "refine" /\ st["img"] = "inflight" =>
          /\ imgCalls["concept"].primary = 1
          /\ imgCalls["circuit"].primary >= 1 =>
               imgPc["concept"] = "done" /\ imgHist["concept"].refine # "none")
  /\ [][st["img"] = "inflight" /\ st'["img"] = "ok"
          => \A k \in ImageKinds : imgPc[k] = "done"]_vars

\* both primary requests in flight
C22_Witness ==
  /\ imgRev = "plain"
  /\ st["img"] = "inflight"
  /\ \A k \in ImageKinds : imgPc[k] = "primary" /\ imgHist[k].primary = "none"

\* C24: what generateConceptImage / generateCircuitDiagram return is the
\* empty string or a data: URI: without a fetch it is empty or built from
\* base64 data of a response, after a fetch that failed (threw or not OK) it
\* is empty, after a fetch that succeeded it is the converted body; a remote
\* URL is never returned.
C24_GeneratedImageIsEmptyOrDataUri ==
  \A k \in ImageKinds :
    GeneratedValueKnown(k) =>
      /\ imgVal[k] = << >> \/ IsDataUri(imgVal[k])
      /\ imgVal[k] \notin {r.url : r \in ImageResponses} \ {<< >>}
      /\ imgHist[k].fetch = "failed" => imgVal[k] = << >>
      /\ imgHist[k].fetch = "ok" =>
           imgVal[k] = <<"data:", "image/png", ";base64,", "ZmV0Y2hlZA">>
      /\ imgHist[k].fetch = "none" =>
           imgVal[k] \in {<< >>} \cup
             {<<"data:image/png;base64,">> \o r.b64 : r \in ImageResponses}

\* one URL fetched and converted, the other fetch failed
C24_Witness ==
  /\ GeneratedValueKnown("concept") /\ GeneratedValueKnown("circuit")
  /\ imgHist["concept"].fetch = "ok" /\ imgVal["concept"] # << >>
  /\ imgHist["circuit"].fetch = "failed" /\ imgVal["circuit"] = << >>

\* C29: the secondary model is called only after the primary call threw; a
\* primary response that returns with neither base64 data nor a URL gives
\* the empty image and no secondary call; and of a secondary response only
\* the URL is used: without one the image is empty even when the response
\* carries base64 data, with one the URL is fetched.
C29_FallbackOnlyOnThrow ==
  /\ [](\A k \in ImageKinds :
          /\ imgCalls[k].secondary >= 1 => imgHist[k].primary = "threw"
          /\ imgPc[k] = "secondary" => imgHist[k].primary = "threw"
          /\ GeneratedValueKnown(k) /\ imgHist[k].secondary = "returned" =>
               imgVal[k] \in {<< >>, <<"data:", "image/png", ";base64,", "ZmV0Y2hlZA">>})
  /\ [][\A k \in ImageKinds :
          PrimaryComplete(k, ImgResp("ok", << >>, << >>)) =>
            /\ imgVal'[k] = << >>
            /\ imgPc'[k] \in {"refine", "done"}
            /\ imgCalls'[k].secondary = 0]_vars
  /\ [][\A k \in ImageKinds : \A resp \in ImageResponses :
          SecondaryComplete(k, resp) /\ resp.k = "ok" =>
            IF resp.url = << >>
            THEN imgVal'[k] = << >> /\ imgPc'[k] \in {"refine", "done"}
            ELSE imgPc'[k] = "fetch" /\ imgVal'[k] = imgVal[k]]_vars

\* the primary call returned an empty response: no fallback, no fetch, an
\* empty image; the other image went through the fallback
C29_Witness ==
  /\ GeneratedValueKnown("concept")
  /\ imgHist["concept"].primary = "returned"
  /\ imgHist["concept"].fetch = "none"
  /\ imgVal["concept"] = << >>
  /\ imgCalls["concept"].secondary = 0
  /\ imgHist["circuit"].primary = "threw"
  /\ imgHist["circuit"].secondary = "returned"

\* the number of times call c was issued in the running request
TimesIssued(c) == Cardinality({i \in 1..Len(issued) : issued[i] = c})

\* C23: in one generateProjectAction run the description, BOM, code and
\* assembly-instruction calls, and generateRobotImages, are each issued at
\* most once, whatever fails; per image each image-model tier is called at
\* most once; and a call that raised is not in flight again in that run.
C23_NoCallIsRetried ==
  /\ [](\A c \in {"desc", "bom", "code", "asm", "img", "ph_circuit", "ph_3d"} :
          TimesIssued(c) <= 1)
  /\ [](\A k \in ImageKinds :
          imgCalls[k].primary <= 1 /\ imgCalls[k].secondary <= 1 /\ imgCalls[k].refine <= 1)
  /\ [][\A c \in {"desc", "bom", "code", "asm"} :
          st[c] = "raised" => st'[c] \in {"raised", "none"}]_vars

\* the BOM call threw: the run ended with two calls issued
C23_Witness ==
  /\ gpaPc = "settled"
  /\ st["bom"] = "raised"
  /\ LastChatWas("bom", {"throw"})
  /\ issued = <<"desc", "bom">>

\* C28: the assembly-instruction call is issued only when the description,
\* BOM and code generators have returned normally; once a generator has
\* raised the run is over, no call of it is followed as in flight, and no
\* chat or image call is issued before a new run starts.
C28_NothingIssuedAfterRaise ==
  /\ [](st["asm"] # "none" => \A c \in {"desc", "bom", "code"} : st[c] = "ok")
  /\ []((\E c \in Calls : st[c] = "raised") =>
          /\ gpaPc = "settled" /\ ~result.success
          /\ \A c \in Calls : st[c] # "inflight")
  /\ [][(\E c \in Calls : st[c] = "raised") =>
          /\ issued' = issued \/ issued' = << >>
          /\ \A k \in ImageKinds : imgCalls'[k] = imgCalls[k]]_vars

\* Promise.all revision: the BOM generator raised while the code call was
\* in flight; the assembly call was never issued
C28_Witness ==
  /\ orchRev = "par"
  /\ st["bom"] = "raised"
  /\ st["code"] = "abandoned"
  /\ st["asm"] = "none"
  /\ issued = <<"desc", "bom", "code", "ph_circuit", "ph_3d">>

\* C30: a JSON response without the code field makes generateCode return
\* code = '' and one without the assemblyInstructions field makes
\* generateAssemblyInstructions return '' as text, neither raising; the
\* action then reports success with the code it got and that text.
C30_MissingFieldGivesEmptyText ==
  /\ LastChatWas("code", {"json"}) /\ lastChat.r.f = Undef =>
       st["code"] = "ok" /\ codeOut = << >>
  /\ LastChatWas("asm", {"json"}) /\ lastChat.r.f = Undef =>
       /\ gpaPc = "settled" /\ st["asm"] = "ok"
       /\ result.success /\ result.data.present
       /\ result.data.assemblyInstructions.assemblyInstructions = << >>
  /\ result.settled /\ result.success => result.data.code = codeOut

\* success with empty code and empty instructions
C30_Witness ==
  /\ result.settled /\ result.success
  /\ LastChatWas("asm", {"json"}) /\ lastChat.r.f = Undef
  /\ result.data.code = << >>
  /\ result.data.assemblyInstructions.assemblyInstructions = << >>
  /\ result.data.projectDescription # << >>


(***************************************************************************)
(* GeneratingStep                                                          *)
(***************************************************************************)
\* index of a step label in the list of steps, counted from 0
LabelIndex(label) == CHOOSE i \in 0..(Len(steps) - 1) : steps[i + 1] = label

\* a step of the generation pipeline: something of the request, of the
\* action or of an image call changes
PipelineStep == <<hgPc, req, srvVars, imgVars>>' # <<hgPc, req, srvVars, imgVars>>

\* C25: The progress indicator evolves on its own timer ticks only, never on
\* a step of the pipeline: the progress value starts at 0, grows by 5 per
\* tick, never decreases and never exceeds 95; the index of the step label
\* starts at 0, grows by one at a time and never passes the last of the six
\* steps.
C25_ProgressRunsOnItsOwnTimers ==
  /\ [](/\ progress \in 0..95
        /\ progress % 5 = 0
        /\ currentStep \in {steps[i] : i \in 1..6}
        /\ LabelIndex(currentStep) <= 5)
  /\ [][projectState # "generating" /\ projectState' = "generating"
          => progress' = 0 /\ LabelIndex(currentStep') = 0]_vars
  /\ [][projectState = "generating" /\ projectState' = "generating"
          => /\ progress' \in {progress, progress + 5}
             /\ LabelIndex(currentStep') \in
                  {LabelIndex(currentStep), LabelIndex(currentStep) + 1}]_vars
  /\ [][projectState = "generating" /\ projectState' = "generating" /\ PipelineStep
          => progress' = progress /\ currentStep' = currentStep]_vars
  /\ [][progress' = progress + 5 \/ LabelIndex(currentStep') = LabelIndex(currentStep) + 1
          => UNCHANGED <<projectState, projectData, toast, hgPc, req, srvVars, imgVars>>]_vars

\* C25 witness: the bar stands at 95 and the last label is shown while the
\* first call of the request is still in flight
C25_Witness ==
  /\ projectState = "generating"
  /\ progress = 95
  /\ ~timer
  /\ currentStep = "Finalizing project files..."
  /\ stepIndex = 6
  /\ ~stepInterval
  /\ gpaPc = "running"
  /\ st["desc"] = "inflight"

(***************************************************************************)
(* Home: projectState and projectData                                      *)
(***************************************************************************)
\* C26: Whenever projectState is 'results', projectData is a project (not
\* null); whenever projectState is 'input', projectData is null.
C26_ResultsHasDataInputHasNone ==
  /\ projectState = "results" => projectData # NoData /\ projectData.present
  /\ projectState = "input" => projectData = NoData /\ ~projectData.present

\* C26 witness: back on the input step after a failed request, with the
\* error toast and no project
C26_Witness ==
  /\ projectState = "input"
  /\ toast = "Failed to generate bill of materials"
  /\ hgPc = "idle"
  /\ projectData = NoData

\* C27: At most one generation request is in flight: a request is submitted
\* only on the input step, the page shows 'generating' for as long as the
\* request runs, so no run starts while another one runs, and a result is
\* stored only by the run the page is waiting for, never over another
\* result.
C27_OneRequestAtATime ==
  /\ [](projectState = "input"
          => /\ hgPc = "idle"
             /\ gpaPc = "idle"
             /\ \A c \in Calls : st[c] = "none")
  /\ [](gpaPc # "idle" \/ hgPc \in {"readImage", "awaitAction"}
          => projectState = "generating")
  /\ [][req' # req /\ req' # NoRequest
          => /\ projectState = "input"
             /\ hgPc = "idle"
             /\ gpaPc = "idle"
             /\ projectState' = "generating"]_vars
  /\ [][gpaPc' = "running" /\ gpaPc # "running"
          => /\ gpaPc = "idle"
             /\ hgPc \in {"idle", "readImage"}
             /\ hgPc' = "awaitAction"
             /\ projectState' = "generating"]_vars
  /\ [][projectData' # projectData
          => \/ projectState = "results" /\ projectData' = NoData
             \/ /\ projectState = "generating"
                /\ hgPc = "awaitAction"
                /\ gpaPc = "settled"
                /\ projectData = NoData
                /\ projectData' = result.data]_vars

\* C27 witness: the page shows 'generating' while the request with an image
\* has its code call in flight
C27_Witness ==
  /\ projectState = "generating"
  /\ hgPc = "awaitAction"
  /\ req.image
  /\ gpaPc = "running"
  /\ st["code"] = "inflight"

====
